---- MODULE Spec2Model ----
(***************************************************************************)
(* A model of src/jupter_printer.py: the CellOutputCapture singleton (the *)
(* "Stream Tee"), the report formatters and the CellExecutionHook         *)
(* controller, driven by client calls, writer threads and the host's      *)
(* before/after execution events.                                         *)
(*                                                                         *)
(* Text is a sequence of atoms.  An atom is a one-character string or a   *)
(* literal token of the source (a colour code, a fixed message).          *)
(***************************************************************************)
EXTENDS Integers, Sequences, FiniteSets, TLC

\* ------------------------------------------------------------------ bounds
\* Non-blank write calls that writer threads may begin.
MaxWrites == 3
\* Clock ticks the model follows.
MaxTime == 2
\* Cells the host executes.
MaxCells == 2
\* activate/deactivate calls that change the controller's state.
MaxToggles == 3
\* Times load_ipython_extension runs.
MaxLoads == 2
\* Direct calls of the report formatters.
MaxPrints == 1

\* ------------------------------------------------------------------ values
None == "None"
\* The value of ret while stop_capture has not returned yet.
NotReturned == <<"<stop_capture not called>">>
\* The module-level singleton output_capture.
Self == "output_capture"
\* The streams the process may have installed before the module is imported.
RealOut == {"sys.__stdout__", "host_stdout"}
RealErr == {"sys.__stderr__"}
RealTargets == RealOut \cup RealErr
Threads == {"t1", "t2"}

GREEN == "\\033[92m"
END == "\\033[0m"
Whitespace == {" ", "\n", "\t"}

\* Chunks a writer may pass to write: empty, whitespace only, and two
\* non-blank ones (one of them with surrounding whitespace).
Chunks == { <<>>, <<" ", "\n">>, <<"h", "i">>, <<" ", "b", "\n">> }

\* ------------------------------------------------------------------ text
RECURSIVE LStrip(_)
LStrip(s) ==
  IF s = <<>> THEN <<>>
  ELSE IF Head(s) \in Whitespace THEN LStrip(Tail(s)) ELSE s

RECURSIVE RStrip(_)
RStrip(s) ==
  IF s = <<>> THEN <<>>
  ELSE IF s[Len(s)] \in Whitespace THEN RStrip(SubSeq(s, 1, Len(s) - 1)) ELSE s

\* str.strip()
Strip(s) == RStrip(LStrip(s))

\* The truth value of "text and text.strip()".
NonBlank(text) == text # <<>> /\ Strip(text) # <<>>

\* ''.join(chunks)
RECURSIVE Join(_)
Join(chunks) ==
  IF chunks = <<>> THEN <<>> ELSE Head(chunks) \o Join(Tail(chunks))

\* f"{Colors.GREEN}[REALTIME] {text}{Colors.END}"
Realtime(text) == <<GREEN, "[REALTIME] ">> \o text \o <<END>>

\* ------------------------------------------------------------------ state
VARIABLES
  sys_stdout,       \* sys.stdout
  sys_stderr,       \* sys.stderr
  original_stdout,  \* output_capture.original_stdout
  original_stderr,  \* output_capture.original_stderr
  captured_output,  \* output_capture.captured_output
  is_capturing,     \* output_capture.is_capturing
  lock,             \* output_capture.lock: its holder, or None
  pc,               \* each writer thread's position inside write
  text,             \* each writer thread's argument of write
  stream,           \* what each real stream received, and how much is flushed
  ret,              \* the value the latest stop_capture returned
  nwrites,          \* non-blank write calls begun
  hist,             \* history: the latest call, the session's opening snapshot
  ip,               \* cell_hook.ip: the host shell, or None
  active,           \* cell_hook.active
  callbacks,        \* the host's event registry: registrations per event
  user_ns,          \* ip.user_ns, a mapping
  ip_attrs,         \* attributes this module sets on the shell object
  wraps,            \* capture wrappers around the host's transform_cell
  magics,           \* line magics registered with the host
  now,              \* time.time()
  host,             \* the host's position: importing, idle, running a cell
  hook              \* history of the hook: counters, the formatter's inputs

capture_vars == <<sys_stdout, sys_stderr, original_stdout, original_stderr,
                  captured_output, is_capturing>>
thread_vars == <<lock, pc, text, nwrites>>
hook_vars == <<ip, active, callbacks, user_ns, ip_attrs, wraps, magics, now,
               host, hook>>
vars == <<sys_stdout, sys_stderr, original_stdout, original_stderr,
          captured_output, is_capturing, lock, pc, text, stream, ret,
          nwrites, hist, ip, active, callbacks, user_ns, ip_attrs, wraps,
          magics, now, host, hook>>

\* A real stream: file.write appends, file.flush pushes everything out.
StreamWrite(s, tgt, t) ==
  [s EXCEPT ![tgt] = [data |-> Append(@.data, t), flushed |-> @.flushed]]
StreamFlush(s, tgt) ==
  [s EXCEPT ![tgt] = [data |-> @.data, flushed |-> Len(@.data)]]

\* The capture singleton, the two process-wide targets and the real streams
\* as one value, so that a method is a function from state to state.
Cap ==
  [sys_stdout |-> sys_stdout, sys_stderr |-> sys_stderr,
   original_stdout |-> original_stdout, original_stderr |-> original_stderr,
   captured_output |-> captured_output, is_capturing |-> is_capturing,
   stream |-> stream]

SetCap(c) ==
  /\ sys_stdout' = c.sys_stdout
  /\ sys_stderr' = c.sys_stderr
  /\ original_stdout' = c.original_stdout
  /\ original_stderr' = c.original_stderr
  /\ captured_output' = c.captured_output
  /\ is_capturing' = c.is_capturing
  /\ stream' = c.stream

\* ------------------------------------------------------- CellOutputCapture
\* Mutant: start_capture without the "if not self.is_capturing" test.
StartCaptureUnguarded(c) ==
  [c EXCEPT !.original_stdout = c.sys_stdout,
            !.original_stderr = c.sys_stderr,
            !.captured_output = <<>>,
            !.sys_stdout = Self,
            !.sys_stderr = Self,
            !.is_capturing = TRUE]

\* Mutant: start_capture that keeps the previous session's chunks.
StartCaptureNoClear(c) ==
  IF ~c.is_capturing
  THEN [c EXCEPT !.original_stdout = c.sys_stdout,
                 !.original_stderr = c.sys_stderr,
                 !.sys_stdout = Self,
                 !.sys_stderr = Self,
                 !.is_capturing = TRUE]
  ELSE c

\* The body of start_capture (lines 57-63).
StartCapture(c) ==
  IF ~c.is_capturing
  THEN [c EXCEPT !.original_stdout = c.sys_stdout,
                 !.original_stderr = c.sys_stderr,
                 !.captured_output = <<>>,
                 !.sys_stdout = Self,
                 !.sys_stderr = Self,
                 !.is_capturing = TRUE]
  ELSE c

\* Mutant: stop_capture that forgets to mark the session inactive.
StopCaptureStaysActive(c) ==
  IF c.is_capturing
  THEN [cap |-> [c EXCEPT !.sys_stdout = c.original_stdout,
                          !.sys_stderr = c.original_stderr],
        ret |-> Join(c.captured_output)]
  ELSE [cap |-> c, ret |-> <<>>]

\* Mutant: stop_capture that returns only the latest chunk.
StopCaptureLastChunk(c) ==
  IF c.is_capturing
  THEN [cap |-> [c EXCEPT !.sys_stdout = c.original_stdout,
                          !.sys_stderr = c.original_stderr,
                          !.is_capturing = FALSE],
        ret |-> IF c.captured_output = <<>> THEN <<>>
                ELSE c.captured_output[Len(c.captured_output)]]
  ELSE [cap |-> c, ret |-> <<>>]

\* Mutant: stop_capture without the "if self.is_capturing" test.
StopCaptureUnguarded(c) ==
  [cap |-> [c EXCEPT !.sys_stdout = c.original_stdout,
                     !.sys_stderr = c.original_stderr,
                     !.is_capturing = FALSE],
   ret |-> Join(c.captured_output)]

\* Mutant: stop_capture that restores both targets from the primary snapshot.
StopCaptureOneSnapshot(c) ==
  IF c.is_capturing
  THEN [cap |-> [c EXCEPT !.sys_stdout = c.original_stdout,
                          !.sys_stderr = c.original_stdout,
                          !.is_capturing = FALSE],
        ret |-> Join(c.captured_output)]
  ELSE [cap |-> c, ret |-> <<>>]

\* The body of stop_capture (lines 68-73): the new state and the value
\* returned.
StopCapture(c) ==
  IF c.is_capturing
  THEN [cap |-> [c EXCEPT !.sys_stdout = c.original_stdout,
                          !.sys_stderr = c.original_stderr,
                          !.is_capturing = FALSE],
        ret |-> Join(c.captured_output)]
  ELSE [cap |-> c, ret |-> <<>>]

\* write, line 79: self.captured_output.append(text)
AppendChunk(c, t) ==
  [c EXCEPT !.captured_output = Append(@, t)]

\* write, lines 81-83: "if self.original_stdout" holds for any stream object
\* and fails for None.
ForwardChunk(c, t) ==
  IF c.original_stdout \in RealTargets
  THEN [c EXCEPT !.stream = StreamFlush(StreamWrite(@, c.original_stdout,
                                                    Realtime(t)),
                                        c.original_stdout)]
  ELSE c

\* Mutant: write without the "text and text.strip()" filter.
WritesThroughUnfiltered(t) == TRUE

\* write, line 77: whether the chunk goes on to the locked body.
WritesThrough(t) == NonBlank(t)

\* write as one step, for a caller that meets no contention on the lock.
Write(c, t) ==
  IF WritesThrough(t) THEN ForwardChunk(AppendChunk(c, t), t) ELSE c

\* CellOutputCapture.__init__, with the process's streams as found.
InitCapture ==
  /\ sys_stdout \in RealOut
  /\ sys_stderr \in RealErr
  /\ original_stdout = None
  /\ original_stderr = None
  /\ captured_output = <<>>
  /\ is_capturing = FALSE
  /\ lock = None
  /\ pc = [t \in Threads |-> "idle"]
  /\ text = [t \in Threads |-> <<>>]
  /\ stream = [tgt \in RealTargets |-> [data |-> <<>>, flushed |-> 0]]
  /\ ret = NotReturned
  /\ nwrites = 0
  /\ hist = [op |-> "init", last_call |-> "none",
             pre_stdout |-> sys_stdout, pre_stderr |-> sys_stderr,
             mark |-> 0, arrived |-> <<>>, arg |-> <<>>,
             via |-> [t \in Threads |-> "none"]]

\* History kept beside a start_capture call made in state c.
HistStart(h, c) ==
  IF ~c.is_capturing
  THEN [h EXCEPT !.last_call = "start",
                 !.pre_stdout = c.sys_stdout, !.pre_stderr = c.sys_stderr,
                 !.mark = IF c.sys_stdout \in RealTargets
                          THEN Len(c.stream[c.sys_stdout].data) ELSE 0,
                 !.arrived = <<>>]
  ELSE [h EXCEPT !.last_call = "start"]

\* History kept beside a stop_capture call.
HistStop(h) == [h EXCEPT !.last_call = "stop"]

\* start_capture: the whole body runs under self.lock.
start_capture ==
  /\ lock = None
  /\ SetCap(StartCapture(Cap))
  /\ hist' = [HistStart(hist, Cap) EXCEPT !.op = "start_capture"]
  /\ UNCHANGED <<lock, pc, text, ret, nwrites>>
  /\ UNCHANGED hook_vars

\* stop_capture: the whole body runs under self.lock.
stop_capture ==
  /\ lock = None
  /\ SetCap(StopCapture(Cap).cap)
  /\ ret' = StopCapture(Cap).ret
  /\ hist' = [HistStop(hist) EXCEPT !.op = "stop_capture"]
  /\ UNCHANGED <<lock, pc, text, nwrites>>
  /\ UNCHANGED hook_vars

\* write, line 77: a blank chunk returns at once, another goes for the lock.
write_call(t, chunk) ==
  /\ pc[t] = "idle"
  /\ IF WritesThrough(chunk)
     THEN /\ nwrites < MaxWrites
          /\ pc' = [pc EXCEPT ![t] = "wait_lock"]
          /\ text' = [text EXCEPT ![t] = chunk]
          /\ nwrites' = nwrites + 1
     ELSE UNCHANGED <<pc, text, nwrites>>
  /\ hist' = [hist EXCEPT !.op = "write_call", !.arg = chunk]
  /\ UNCHANGED <<capture_vars, stream, lock, ret>>
  /\ UNCHANGED hook_vars

\* A thread writes a chunk to sys.stdout or sys.stderr, whatever object that
\* name holds at the moment: a real stream takes the chunk as it is, the
\* capture object runs write (line 77 first).
stream_write(t, which, chunk) ==
  /\ pc[t] = "idle"
  /\ LET target == IF which = "stdout" THEN sys_stdout ELSE sys_stderr
     IN IF target = Self
        THEN /\ IF WritesThrough(chunk)
                THEN /\ nwrites < MaxWrites
                     /\ pc' = [pc EXCEPT ![t] = "wait_lock"]
                     /\ text' = [text EXCEPT ![t] = chunk]
                     /\ nwrites' = nwrites + 1
                ELSE UNCHANGED <<pc, text, nwrites>>
             /\ UNCHANGED stream
        ELSE /\ target \in RealTargets
             /\ chunk # <<>>
             /\ nwrites < MaxWrites
             /\ nwrites' = nwrites + 1
             /\ stream' = StreamWrite(stream, target, chunk)
             /\ UNCHANGED <<pc, text>>
  /\ hist' = [hist EXCEPT !.op = "stream_write", !.arg = chunk,
                          !.via[t] = which]
  /\ UNCHANGED <<capture_vars, lock, ret>>
  /\ UNCHANGED hook_vars

\* Mutant: write that enters its body without waiting for the lock.
write_acquire_no_wait(t) ==
  /\ pc[t] = "wait_lock"
  /\ lock' = t
  /\ pc' = [pc EXCEPT ![t] = "locked"]
  /\ hist' = [hist EXCEPT !.op = "write_acquire"]
  /\ UNCHANGED <<capture_vars, stream, text, ret, nwrites>>
  /\ UNCHANGED hook_vars

\* write, line 78: with self.lock.
write_acquire(t) ==
  /\ pc[t] = "wait_lock"
  /\ lock = None
  /\ lock' = t
  /\ pc' = [pc EXCEPT ![t] = "locked"]
  /\ hist' = [hist EXCEPT !.op = "write_acquire"]
  /\ UNCHANGED <<capture_vars, stream, text, ret, nwrites>>
  /\ UNCHANGED hook_vars

\* write, line 79, by the thread that holds the lock.
write_append(t) ==
  /\ pc[t] = "locked"
  /\ SetCap(AppendChunk(Cap, text[t]))
  /\ pc' = [pc EXCEPT ![t] = "appended"]
  /\ hist' = [hist EXCEPT !.op = "write_append",
                          !.arrived = Append(@, text[t])]
  /\ UNCHANGED <<lock, text, ret, nwrites>>
  /\ UNCHANGED hook_vars

\* write, lines 81-83 and the end of the with block: forward, flush, release.
write_forward(t) ==
  /\ pc[t] = "appended"
  /\ SetCap(ForwardChunk(Cap, text[t]))
  /\ lock' = IF lock = t THEN None ELSE lock
  /\ pc' = [pc EXCEPT ![t] = "idle"]
  /\ text' = [text EXCEPT ![t] = <<>>]
  /\ hist' = [hist EXCEPT !.op = "write_forward"]
  /\ UNCHANGED <<ret, nwrites>>
  /\ UNCHANGED hook_vars

\* -------------------------------------------------------------- printing
BLUE == "\\033[94m"
YELLOW == "\\033[93m"
RED == "\\033[91m"
PURPLE == "\\033[95m"
BOLD == "\\033[1m"
\* '='*60
RULE == "============================================================"
\* The preview of a result is cut at this many characters.
PreviewLimit == 200

DigitChar == <<"0", "1", "2", "3", "4", "5", "6", "7", "8", "9">>

\* str(n) for n >= 0
RECURSIVE Dec(_)
Dec(n) ==
  IF n < 10 THEN <<DigitChar[n + 1]>>
  ELSE Dec(n \div 10) \o <<DigitChar[(n % 10) + 1]>>

\* f"{i:2d}"
Fmt2d(i) == IF i < 10 THEN <<" ">> \o Dec(i) ELSE Dec(i)

\* f"{t:.3f}" for a time that is a whole number of clock units
Fmt3f(t) ==
  (IF t < 0 THEN <<"-">> \o Dec(0 - t) ELSE Dec(t)) \o <<".", "0", "0", "0">>

\* s.split('\n')
RECURSIVE SplitLines(_)
SplitLines(s) ==
  IF \E i \in 1..Len(s) : s[i] = "\n"
  THEN LET i == CHOOSE k \in 1..Len(s) :
                  s[k] = "\n" /\ \A j \in 1..(k - 1) : s[j] # "\n"
       IN <<SubSeq(s, 1, i - 1)>> \o SplitLines(SubSeq(s, i + 1, Len(s)))
  ELSE <<s>>

\* print(line): file.write(line) then file.write("\n") on sys.stdout, which
\* is the capture object, a real stream, or None (print then does nothing).
PrintLine(c, line) ==
  IF c.sys_stdout = Self THEN Write(Write(c, line), <<"\n">>)
  ELSE IF c.sys_stdout \in RealTargets
  THEN [c EXCEPT !.stream = StreamWrite(StreamWrite(@, c.sys_stdout, line),
                                        c.sys_stdout, <<"\n">>)]
  ELSE c

RECURSIVE PrintAll(_, _)
PrintAll(c, lines) ==
  IF lines = <<>> THEN c ELSE PrintAll(PrintLine(c, Head(lines)), Tail(lines))

\* History kept beside PrintAll: the chunks that reach the sink.
HistPrinted(h, c, lines) ==
  IF c.sys_stdout = Self
  THEN [h EXCEPT !.arrived = @ \o lines]
  ELSE h

\* ------------------------------------------------------------ formatters
\* Splits the cell text without trimming it.
PreRunLinesUntrimmed(cell_content) ==
  LET lines == SplitLines(cell_content)
  IN << <<"\n", BLUE, BOLD, RULE>>,
        <<"PRE-RUN: Cell Content">>,
        <<RULE, END>> >>
     \o [i \in 1..Len(lines) |->
           <<BLUE, "[">> \o Fmt2d(i) \o <<"]", " ">> \o lines[i] \o <<END>>]
     \o << <<BLUE, RULE>>,
           <<"Execution starting...">>,
           <<RULE, END, "\n">> >>

\* The lines pre_run_print prints (lines 102-113).
PreRunLines(cell_content) ==
  LET lines == SplitLines(Strip(cell_content))
  IN << <<"\n", BLUE, BOLD, RULE>>,
        <<"PRE-RUN: Cell Content">>,
        <<RULE, END>> >>
     \o [i \in 1..Len(lines) |->
           <<BLUE, "[">> \o Fmt2d(i) \o <<"]", " ">> \o lines[i] \o <<END>>]
     \o << <<BLUE, RULE>>,
           <<"Execution starting...">>,
           <<RULE, END, "\n">> >>

\* A Python value: its type's name and its str().
PyNone == [type |-> "NoneType", str |-> <<"N", "o", "n", "e">>]

\* Cuts a text that is exactly as long as the limit.
ResultPreviewInclusive(full) ==
  IF Len(full) >= PreviewLimit
  THEN SubSeq(full, 1, PreviewLimit) \o <<".", ".", ".">>
  ELSE full

\* result_str after lines 147-149: str(execution_result), cut when it is
\* longer than the limit.
ResultPreview(full) ==
  IF Len(full) > PreviewLimit
  THEN SubSeq(full, 1, PreviewLimit) \o <<".", ".", ".">>
  ELSE full

\* The lines post_run_print prints (lines 137-158).
PostRunLines(execution_result, execution_time, cell_content) ==
  LET result_str == ResultPreview(execution_result.str)
  IN << <<"\n", YELLOW, BOLD, RULE>>,
        <<"POST-RUN: Execution Complete">>,
        <<RULE, END>>,
        <<YELLOW, "Execution time: ">> \o Fmt3f(execution_time)
           \o <<" seconds", END>>,
        <<YELLOW, "Lines executed: ">>
           \o Dec(Len(SplitLines(Strip(cell_content)))) \o <<END>> >>
     \o (IF execution_result # PyNone
         THEN << <<YELLOW, "Result type: ", execution_result.type, END>> >>
              \o (IF Strip(result_str) # <<>>
                  THEN << <<YELLOW, "Result preview: ">> \o result_str
                             \o <<END>> >>
                  ELSE <<>>)
         ELSE << <<YELLOW, "No return value", END>> >>)
     \o << <<YELLOW, RULE>>,
           <<"Cell execution completed successfully!">>,
           <<RULE, END, "\n">> >>

\* ------------------------------------------------------------------ host
Shell == "shell"
\* Cells the user submits.
RawCells == { <<"x">>, <<"a", "\n", "b", "\n">> }
NoContent == <<"No content available">>
\* Values a cell may compute.
CellResults == { [type |-> "int", str |-> <<"4", "2">>] }
NoCall == [called |-> FALSE, result |-> PyNone, execution_time |-> 0,
           cell_content |-> <<>>]

\* getattr(obj, name, default) on an object whose instance attributes are
\* the mapping attrs.
GetAttr(attrs, name, default) ==
  IF name \in DOMAIN attrs THEN attrs[name] ELSE default

\* The attributes of a dict object: its methods.  The keys it holds are not
\* attributes.
DictAttrs(d) ==
  [m \in {"get", "items", "keys", "pop", "setdefault", "update", "values"}
     |-> "<built-in method>"]

\* d[key] = value
SetItem(d, key, value) ==
  [k \in DOMAIN d \cup {key} |-> IF k = key THEN value ELSE d[k]]

\* The world a handler of the main thread runs in: the capture state, the
\* controller's flag, the host's registry and the histories.
World ==
  [cap |-> Cap, ret |-> ret, hist |-> hist, active |-> active,
   callbacks |-> callbacks, user_ns |-> user_ns, ip_attrs |-> ip_attrs,
   wraps |-> wraps, magics |-> magics, now |-> now, hook |-> hook]

SetWorld(w) ==
  /\ SetCap(w.cap)
  /\ ret' = w.ret
  /\ hist' = w.hist
  /\ active' = w.active
  /\ callbacks' = w.callbacks
  /\ user_ns' = w.user_ns
  /\ ip_attrs' = w.ip_attrs
  /\ wraps' = w.wraps
  /\ magics' = w.magics
  /\ now' = w.now
  /\ hook' = w.hook

Emit(w, lines) ==
  [w EXCEPT !.cap = PrintAll(w.cap, lines),
            !.hist = HistPrinted(w.hist, w.cap, lines)]

\* The host's display hook: the value of the cell's last expression becomes
\* user_ns['_'], unless it is None.
DisplayResult(w, value) ==
  IF value = PyNone
  THEN w
  ELSE [w EXCEPT !.user_ns = SetItem(@, "_", value)]

\* ip.events.register(event, callback): one more registration.
Register(cb, event) == [cb EXCEPT ![event] = @ + 1]
\* ip.events.unregister(event, callback): one registration fewer.
Unregister(cb, event) == [cb EXCEPT ![event] = IF @ > 0 THEN @ - 1 ELSE 0]

\* ----------------------------------------------------- CellExecutionHook
ActivatedLine ==
  <<PURPLE,
    "Cell Monitor activated! All cell executions will now be monitored.",
    END>>
DeactivatedLine == <<RED, "Cell Monitor deactivated.", END>>

\* Mutant: activate without the "if not self.active" test.
ActivateUnguarded(w) ==
  IF ip = None
  THEN [w EXCEPT !.hook.raised = TRUE]
  ELSE Emit([w EXCEPT
                !.callbacks = Register(Register(@, "pre_execute"),
                                       "post_execute"),
                !.active = TRUE],
             <<ActivatedLine>>)

\* activate (lines 197-203).  With no shell, self.ip.events raises
\* AttributeError before anything is changed.
Activate(w) ==
  IF ~w.active
  THEN IF ip = None
       THEN [w EXCEPT !.hook.raised = TRUE]
       ELSE Emit([w EXCEPT
                     !.callbacks = Register(Register(@, "pre_execute"),
                                            "post_execute"),
                     !.active = TRUE],
                  <<ActivatedLine>>)
  ELSE w

\* deactivate (lines 205-211).
Deactivate(w) ==
  IF w.active
  THEN Emit([w EXCEPT
                !.callbacks = Unregister(Unregister(@, "pre_execute"),
                                         "post_execute"),
                !.active = FALSE],
             <<DeactivatedLine>>)
  ELSE w

\* pre_execute (lines 168-179); hasattr(self.ip, 'user_ns') holds for the
\* shell and fails for None.
PreExecute(w) ==
  IF w.active /\ ip = Shell
  THEN LET cell_content ==
             GetAttr(w.ip_attrs, "_current_cell_content", NoContent)
           printed == Emit(w, PreRunLines(cell_content))
       IN [printed EXCEPT
             !.cap = StartCapture(printed.cap),
             !.hist = HistStart(printed.hist, printed.cap),
             !.user_ns = SetItem(@, "_cell_start_time", w.now),
             !.hook.pre_ran = TRUE]
  ELSE w

\* post_execute (lines 181-195).  time.time() is read twice, as the default
\* handed to getattr and for the subtraction: two adjacent statements, which
\* read the same clock unit.
PostExecute(w) ==
  IF w.active
  THEN LET stopped == StopCapture(w.cap)
           start_time ==
             GetAttr(DictAttrs(w.user_ns), "_cell_start_time", w.now)
           execution_time == w.now - start_time
           cell_content ==
             GetAttr(w.ip_attrs, "_current_cell_content", NoContent)
           result == GetAttr(DictAttrs(w.user_ns), "_", PyNone)
           after == [w EXCEPT !.cap = stopped.cap,
                              !.ret = stopped.ret,
                              !.hist = HistStop(@),
                              !.hook.post =
                                 [called |-> TRUE, result |-> result,
                                  execution_time |-> execution_time,
                                  cell_content |-> cell_content],
                              !.hook.post_time = w.now]
       IN Emit(after, PostRunLines(result, execution_time, cell_content))
  ELSE w

\* The wrapper load_ipython_extension puts around transform_cell
\* (lines 249-251): every wrapper in the chain stores the raw cell.
TransformCell(w, raw_cell) ==
  IF w.wraps > 0
  THEN [w EXCEPT !.ip_attrs = SetItem(@, "_current_cell_content", raw_cell)]
  ELSE w

MagicNames == {"cell_monitor_on", "cell_monitor_off", "cell_monitor_status"}

\* load_ipython_extension (lines 240-261).
LoadExtension(w) ==
  Activate([w EXCEPT !.wraps = @ + 1, !.magics = @ \cup MagicNames])

\* unload_ipython_extension (lines 264-266).
UnloadExtension(w) == Deactivate(w)

\* The notice of the except branch (line 294).
NoticeLine == <<"Not running in IPython/Jupyter environment">>

\* The end of the module's import (lines 288-294).  Nothing in the try body
\* raises: get_ipython() returns None outside a host, and the shell accepts
\* every step of the load; the except branch is never entered.
AutoLoad(w) == IF ip # None THEN LoadExtension(w) ELSE w

\* The singletons as constructed while the module is imported (lines 92 and
\* 215): get_ipython() gave the shell, or None outside a host.
InitHook ==
  /\ ip \in {Shell, None}
  /\ active = FALSE
  /\ callbacks = [e \in {"pre_execute", "post_execute"} |-> 0]
  /\ user_ns = [k \in {} |-> 0]
  /\ ip_attrs = [k \in {} |-> <<>>]
  /\ wraps = 0
  /\ magics = {}
  /\ now = 0
  /\ host = "importing"
  /\ hook = [raised |-> FALSE, toggles |-> 0, cells |-> 0,
             pre_ran |-> FALSE, post |-> NoCall, post_time |-> 0,
             prints |-> 0]

Op(w, name) == [w EXCEPT !.hist.op = name]

\* Whether a call of Activate / Deactivate would change the controller.
WouldActivate == ~active /\ ip = Shell
WouldDeactivate == active

\* The import ends with the automatic load.
auto_load ==
  /\ host = "importing"
  /\ lock = None
  /\ host' = "idle"
  /\ SetWorld(Op(AutoLoad([World EXCEPT
        !.hook.toggles = IF WouldActivate THEN @ + 1 ELSE @]), "auto_load"))
  /\ UNCHANGED <<thread_vars, ip>>

\* cell_monitor.activate() or %cell_monitor_on (lines 225, 272).
activate ==
  /\ host # "importing"
  /\ lock = None
  /\ WouldActivate => hook.toggles < MaxToggles
  /\ SetWorld(Op(Activate([World EXCEPT
        !.hook.raised = FALSE,
        !.hook.toggles = IF WouldActivate THEN @ + 1 ELSE @]), "activate"))
  /\ UNCHANGED <<thread_vars, ip, host>>

\* cell_monitor.deactivate() or %cell_monitor_off (lines 230, 277).
deactivate ==
  /\ host # "importing"
  /\ lock = None
  /\ WouldDeactivate => hook.toggles < MaxToggles
  /\ SetWorld(Op(Deactivate([World EXCEPT
        !.hook.raised = FALSE,
        !.hook.toggles = IF WouldDeactivate THEN @ + 1 ELSE @]),
        "deactivate"))
  /\ UNCHANGED <<thread_vars, ip, host>>

\* %load_ext / %reload_ext: the host calls load_ipython_extension(shell).
load_ipython_extension ==
  /\ host # "importing"
  /\ ip = Shell
  /\ lock = None
  /\ wraps < MaxLoads
  /\ WouldActivate => hook.toggles < MaxToggles
  /\ SetWorld(Op(LoadExtension([World EXCEPT
        !.hook.raised = FALSE,
        !.hook.toggles = IF WouldActivate THEN @ + 1 ELSE @]),
        "load_ipython_extension"))
  /\ UNCHANGED <<thread_vars, ip, host>>

\* %unload_ext: the host calls unload_ipython_extension(shell).
unload_ipython_extension ==
  /\ host # "importing"
  /\ ip = Shell
  /\ lock = None
  /\ WouldDeactivate => hook.toggles < MaxToggles
  /\ SetWorld(Op(UnloadExtension([World EXCEPT
        !.hook.raised = FALSE,
        !.hook.toggles = IF WouldDeactivate THEN @ + 1 ELSE @]),
        "unload_ipython_extension"))
  /\ UNCHANGED <<thread_vars, ip, host>>

\* The host takes a cell: transform_cell(raw_cell), which the wrapper
\* records, then the pre_execute event, which calls the callback if it is
\* registered.
host_run_cell(raw_cell) ==
  /\ ip = Shell
  /\ host = "idle"
  /\ lock = None
  /\ hook.cells < MaxCells
  /\ host' = "running"
  /\ LET w == TransformCell([World EXCEPT
                  !.hook.cells = @ + 1, !.hook.pre_ran = FALSE,
                  !.hook.post = NoCall, !.hook.raised = FALSE], raw_cell)
     IN SetWorld(Op(IF callbacks["pre_execute"] > 0 THEN PreExecute(w) ELSE w,
                    "host_run_cell"))
  /\ UNCHANGED <<thread_vars, ip>>

\* The cell is over.  A cell ending in an expression has a value: the host's
\* display hook stores it as user_ns['_'], the slot post_execute looks for
\* (line 193); a value of None is not stored.  Then the host fires the
\* post_execute event, which calls the callback if it is registered.
host_finish_cell ==
  /\ host = "running"
  /\ lock = None
  /\ host' = "idle"
  /\ \E value \in CellResults \cup {PyNone} :
       LET w == DisplayResult(World, value)
       IN SetWorld(Op(IF callbacks["post_execute"] > 0
                      THEN PostExecute(w)
                      ELSE w, "host_finish_cell"))
  /\ UNCHANGED <<thread_vars, ip>>

\* Time passes while a cell runs (the clock is read only by the two
\* callbacks, and only the difference of two readings is used).
tick ==
  /\ host = "running"
  /\ now < MaxTime
  /\ now' = now + 1
  /\ hist' = [hist EXCEPT !.op = "tick"]
  /\ UNCHANGED <<capture_vars, stream, ret, thread_vars, ip, active,
                 callbacks, user_ns, ip_attrs, wraps, magics, host, hook>>

\* Client code calls the two report formatters directly.
\* A text of n characters "x".
Filled(n) == [i \in 1..n |-> "x"]
\* n lines "y".
RECURSIVE NLines(_)
NLines(n) == IF n = 1 THEN <<"y">> ELSE NLines(n - 1) \o <<"\n", "y">>

\* Results handed to post_run_print: None, a number, and strings of lengths
\* around the preview limit, blank ones among them.
FormatResults ==
  {PyNone, [type |-> "int", str |-> <<"4", "2">>],
   [type |-> "str", str |-> <<" ">>]}
  \cup {[type |-> "str", str |-> Filled(n)] :
          n \in {0, PreviewLimit - 1, PreviewLimit, PreviewLimit + 1,
                 PreviewLimit + 50}}
\* Cell texts handed to the formatters: empty, blank, one line, several
\* lines with blank edges, and enough lines for a two-digit index.
FormatCells ==
  RawCells \cup { <<>>, <<" ", "\n">>, <<"a", "\n", "b", "\n", "c">>,
                  <<"\n", "a", "\n", "\n", "b", " ">>, NLines(10) }

pre_run_print(cell_content) ==
  /\ host = "idle"
  /\ lock = None
  /\ hook.prints < MaxPrints
  /\ SetWorld(Op(Emit([World EXCEPT !.hook.prints = @ + 1,
                                    !.hist.arg = cell_content],
                      PreRunLines(cell_content)), "pre_run_print"))
  /\ UNCHANGED <<thread_vars, ip, host>>

post_run_print(execution_result, execution_time, cell_content) ==
  /\ host = "idle"
  /\ lock = None
  /\ hook.prints < MaxPrints
  /\ SetWorld(Op(Emit([World EXCEPT
                         !.hook.prints = @ + 1,
                         !.hook.post =
                            [called |-> TRUE, result |-> execution_result,
                             execution_time |-> execution_time,
                             cell_content |-> cell_content]],
                      PostRunLines(execution_result, execution_time,
                                   cell_content)), "post_run_print"))
  /\ UNCHANGED <<thread_vars, ip, host>>

\* The capture singleton used directly: client calls of start_capture and
\* stop_capture, writer threads stepping through write.
Init == InitCapture /\ InitHook

Next ==
  \/ start_capture
  \/ stop_capture
  \/ \E t \in Threads, chunk \in Chunks : write_call(t, chunk)
  \/ \E t \in Threads : write_acquire(t)
  \/ \E t \in Threads : write_append(t)
  \/ \E t \in Threads : write_forward(t)

Spec == Init /\ [][Next]_vars

\* Chunks written through the process-wide names: a blank one and a word.
TeeChunks == { <<" ", "\n">>, <<"h", "i">> }

\* The capture installed as sys.stdout and sys.stderr: threads write through
\* the two process-wide names while a client starts and stops sessions.
NextTee ==
  \/ start_capture
  \/ stop_capture
  \/ \E t \in Threads, which \in {"stdout", "stderr"}, chunk \in TeeChunks :
       stream_write(t, which, chunk)
  \/ \E t \in Threads : write_acquire(t)
  \/ \E t \in Threads : write_append(t)
  \/ \E t \in Threads : write_forward(t)

SpecTee == Init /\ [][NextTee]_vars

\* The hook controller under the host: import, commands, load and unload,
\* cells and the clock.
NextHook ==
  \/ auto_load
  \/ activate
  \/ deactivate
  \/ load_ipython_extension
  \/ unload_ipython_extension
  \/ \E raw_cell \in RawCells : host_run_cell(raw_cell)
  \/ host_finish_cell
  \/ tick

SpecHook == Init /\ [][NextHook]_vars

\* The formatters called directly once the module is imported.
NextFormat ==
  \/ auto_load
  \/ \E cell_content \in FormatCells : pre_run_print(cell_content)
  \/ \E execution_result \in FormatResults, execution_time \in 0..MaxTime,
        cell_content \in FormatCells :
        post_run_print(execution_result, execution_time, cell_content)

SpecFormat == Init /\ [][NextFormat]_vars

\* ------------------------------------------------------------ properties
InCritical(t) == pc[t] \in {"locked", "appended"}

\* What write forwarded to the snapshotted primary target since the session
\* opened: the part of that stream's data after the opening mark.
ForwardedInSession ==
  IF original_stdout \in RealTargets
  THEN SubSeq(stream[original_stdout].data, hist.mark + 1,
              Len(stream[original_stdout].data))
  ELSE <<>>

\* C1: after any sequence of start_capture/stop_capture calls, is_capturing
\* is true if and only if the most recent of them was start_capture; it is
\* false before the first start and after every stop.
C1_ActiveIffLastCallStart ==
  is_capturing <=> (hist.last_call = "start")

\* A start that follows an earlier stop has just run.
C1_Witness ==
  /\ hist.op = "start_capture"
  /\ is_capturing
  /\ ret # NotReturned

\* C2: a stop_capture called while active puts back the two targets the
\* opening start displaced, marks the session inactive and returns the
\* concatenation, in arrival order, of the non-blank chunks written since
\* that start.
C2_StopRestoresAndReturns ==
  [][ (is_capturing /\ hist'.op = "stop_capture")
      => /\ sys_stdout' = hist.pre_stdout
         /\ sys_stderr' = hist.pre_stderr
         /\ ~is_capturing'
         /\ ret' = Join(hist.arrived)
         /\ \A i \in 1..Len(hist.arrived) : NonBlank(hist.arrived[i]) ]_vars

\* write("hi") then stop: the stop has returned exactly "hi".
C2_Witness ==
  /\ hist.op = "stop_capture"
  /\ ~is_capturing
  /\ hist.arrived = << <<"h", "i">> >>
  /\ ret = <<"h", "i">>
  /\ sys_stdout = "host_stdout"

\* C3: start_capture while active is a no-op: snapshot, sink, targets and
\* flag are unchanged, and the snapshot is never the capture object.
C3_StartWhileActiveNoOp ==
  /\ [][ (is_capturing /\ hist'.op = "start_capture")
         => UNCHANGED <<capture_vars, stream, ret>> ]_vars
  /\ [](original_stdout # Self /\ original_stderr # Self)

\* A start has just run on a session that already holds a chunk.
C3_Witness ==
  /\ hist.op = "start_capture"
  /\ is_capturing
  /\ captured_output # <<>>

\* C4: stop_capture while inactive returns the empty text and changes no
\* state of the session nor of the streams.
C4_StopWhileInactiveNoOp ==
  [][ (~is_capturing /\ hist'.op = "stop_capture")
      => /\ ret' = <<>>
         /\ UNCHANGED <<capture_vars, stream>> ]_vars

\* A stop has returned the empty text although the sink holds a chunk: it
\* ran while inactive.
C4_Witness ==
  /\ hist.op = "stop_capture"
  /\ ret = <<>>
  /\ captured_output # <<>>
  /\ ~is_capturing

\* C5 as stated: after every stop_capture that ends a session the sink
\* holds no chunks.
C5_SinkClearedOnStop ==
  (hist.op = "stop_capture" /\ ret # <<>>) => captured_output = <<>>

\* C5 as amended: the sink is emptied exactly by a start that opens a
\* session; stop_capture returns the sink's content and leaves the sink as
\* it is; no other operation takes a chunk out of the sink.
C5_SinkClearedOnlyOnOpeningStart ==
  [][ /\ (~is_capturing /\ hist'.op = "start_capture")
         => captured_output' = <<>>
      /\ hist'.op = "stop_capture"
         => /\ captured_output' = captured_output
            /\ is_capturing => ret' = Join(captured_output)
      /\ (captured_output # <<>> /\ Len(captured_output') < Len(captured_output))
         => (~is_capturing /\ hist'.op = "start_capture") ]_vars

\* A stop has ended a session and the sink still holds what it returned.
C5_Witness ==
  /\ hist.op = "stop_capture"
  /\ ret # <<>>
  /\ ret = Join(captured_output)
  /\ ~is_capturing

\* C6: while is_capturing both process-wide targets are the capture object;
\* while it is false both are what was installed before the start that
\* opened the most recent session (the initial targets if there was none).
C6_TargetsFollowActiveFlag ==
  /\ is_capturing => (sys_stdout = Self /\ sys_stderr = Self)
  /\ ~is_capturing => (sys_stdout = hist.pre_stdout /\ sys_stderr = hist.pre_stderr)
  /\ hist.pre_stdout \in RealOut /\ hist.pre_stderr \in RealErr

\* A second session is open: the targets were restored and displaced again.
C6_Witness ==
  /\ is_capturing
  /\ ret # NotReturned /\ ret # <<>>
  /\ sys_stdout = Self /\ sys_stderr = Self
  /\ hist.pre_stdout = "host_stdout"

\* C7: append and forward of a write are one step under the lock: at most
\* one thread is inside write's locked body, and during a session the chunks
\* forwarded to the snapshotted target are, in content and order, the chunks
\* of the sink (up to the one chunk whose forward is still to come), and
\* the target is flushed after each forward.
C7_ForwardedMatchesSink ==
  /\ Cardinality({t \in Threads : InCritical(t)}) <= 1
  /\ \A t \in Threads : InCritical(t) <=> lock = t
  /\ is_capturing =>
       LET pending == IF \E t \in Threads : pc[t] = "appended" THEN 1 ELSE 0
           n == Len(captured_output) - pending
       IN /\ n >= 0
          /\ ForwardedInSession =
               [i \in 1..n |-> Realtime(captured_output[i])]
          /\ original_stdout \in RealTargets
          /\ ForwardedInSession # <<>> =>
               stream[original_stdout].flushed
                 = Len(stream[original_stdout].data)

\* Two writers contend during a session: one is between append and forward
\* while the other waits for the lock, and an earlier chunk is already in.
C7_Witness ==
  /\ is_capturing
  /\ \E t, u \in Threads : pc[t] = "appended" /\ pc[u] = "wait_lock"
  /\ Len(captured_output) >= 2
  /\ captured_output[1] # captured_output[2]

\* C8: a write of an empty or whitespace-only chunk changes nothing: nothing
\* is appended, forwarded or flushed, so no blank chunk is ever in the sink
\* or in a text stop_capture returns.
C8_BlankWriteNoOp ==
  /\ [][ (hist'.op = "write_call" /\ ~NonBlank(hist'.arg))
         => UNCHANGED <<capture_vars, stream, lock, pc, text, ret>> ]_vars
  /\ [](\A i \in 1..Len(captured_output) : NonBlank(captured_output[i]))

\* A whitespace-only chunk has just been written during a session.
C8_Witness ==
  /\ hist.op = "write_call"
  /\ hist.arg = <<" ", "\n">>
  /\ is_capturing
  /\ captured_output # <<>>

\* C9: the pre- and post-execution callbacks are registered with the host
\* exactly when the controller is Active, each once; activate while Active
\* and deactivate while Inactive register and unregister nothing, print
\* nothing and leave the controller as it is.
C9_RegisteredIffActive ==
  /\ [](/\ callbacks["pre_execute"] = (IF active THEN 1 ELSE 0)
        /\ callbacks["post_execute"] = (IF active THEN 1 ELSE 0))
  /\ [][ ((active /\ hist'.op = "activate")
          \/ (~active /\ hist'.op = "deactivate"))
         => UNCHANGED <<active, callbacks, capture_vars, stream>> ]_vars

\* activate has just been called on a controller that the automatic load
\* had already made Active: the only change of state so far is that load's.
C9_Witness ==
  /\ hist.op = "activate"
  /\ active
  /\ hook.toggles = 1
  /\ callbacks["pre_execute"] = 1

\* C10: for a cell whose pre-execution callback ran while Active, the
\* duration the post-execution callback hands to post_run_print is the time
\* of that callback less the start time the pre-execution callback stored
\* under '_cell_start_time'.
C10_DurationFromRecordedStart ==
  (hook.post.called /\ hook.pre_ran)
    => hook.post.execution_time = hook.post_time - user_ns["_cell_start_time"]

\* The line of the last report printed on the current primary target that
\* stands just before the report's three closing lines.
LastVerdictLine ==
  LET out == stream[sys_stdout].data
  IN out[Len(out) - 7]

\* C11: when the post-execution callback has run in the Active state, the
\* result it handed to post_run_print is the value the host holds under
\* '_' (None when the slot is absent), and the report says "No return
\* value" only when that slot holds None or is absent.
C11_ResultFromContext ==
  (hist.op = "host_finish_cell" /\ hook.post.called
     /\ sys_stdout \in RealTargets)
    => LET slot == GetAttr(user_ns, "_", PyNone)
       IN /\ hook.post.result = slot
          /\ slot # PyNone
               => LastVerdictLine # <<YELLOW, "No return value", END>>

\* C12: when the import found no host handle, nothing is activated (no
\* wrapper around the transform step, no command, no callback, controller
\* Inactive), the diagnostic notice has been printed, and no later call of
\* activate or deactivate has raised.
C12_NoPartialActivationOnHostFailure ==
  (ip = None /\ host # "importing")
    => /\ wraps = 0
       /\ magics = {}
       /\ \A e \in DOMAIN callbacks : callbacks[e] = 0
       /\ ~active
       /\ \E tgt \in RealTargets :
            \E i \in 1..Len(stream[tgt].data) :
              stream[tgt].data[i] = NoticeLine
       /\ ~hook.raised

\* C13: for a result that is not None, the preview line of the report is
\* the result's text unchanged when it has at most PreviewLimit characters,
\* and its first PreviewLimit characters followed by "..." when it is
\* longer; the line is left out only when that text is blank, and then the
\* report's verdict is the result-type line.
C13_PreviewCutAtLimit ==
  (hist.op = "post_run_print" /\ hook.post.result # PyNone
     /\ sys_stdout \in RealTargets)
    => LET full == hook.post.result.str
           expected ==
             IF Len(full) <= PreviewLimit
             THEN full
             ELSE [i \in 1..(PreviewLimit + 3) |->
                     IF i <= PreviewLimit THEN full[i] ELSE "."]
       IN IF NonBlank(expected)
          THEN LastVerdictLine
                 = <<YELLOW, "Result preview: ">> \o expected \o <<END>>
          ELSE LastVerdictLine
                 = <<YELLOW, "Result type: ", hook.post.result.type, END>>

\* A result one character over the limit has been reported: its preview
\* line holds the limit's worth of characters and the three dots.
C13_Witness ==
  /\ hist.op = "post_run_print"
  /\ Len(hook.post.result.str) = PreviewLimit + 1
  /\ Len(LastVerdictLine) = PreviewLimit + 6
  /\ LastVerdictLine[PreviewLimit + 3] = "."

\* The k-th line, counted from the end, printed on the primary target.
LineFromEnd(k) ==
  LET out == stream[sys_stdout].data
  IN out[Len(out) - 2 * k + 1]

\* The number of lines of a text: one more than its line breaks.
LineCount(s) == 1 + Cardinality({i \in DOMAIN s : s[i] = "\n"})

\* The text of an indexed line of the pre-run report, between its
\* "[ i] " head and the closing colour code.
IndexedText(line) == SubSeq(line, 7, Len(line) - 1)

\* The last "Lines executed" line printed on the primary target.
LinesExecutedLine ==
  LET out == stream[sys_stdout].data
      at == {i \in DOMAIN out :
               Len(out[i]) > 1 /\ out[i][2] = "Lines executed: "}
  IN out[CHOOSE i \in at : \A j \in at : j <= i]

\* C14: with n the number of lines of the trimmed cell text (1 for an
\* empty or blank text), the pre-run report consists of its three opening
\* lines, n indexed lines numbered 1..n in order that carry the lines of
\* the trimmed text, and its three closing lines; and the post-run report
\* for the same text gives n as the number of lines executed.
C14_IndexedLinesMatchLineCount ==
  /\ (hist.op = "pre_run_print" /\ sys_stdout \in RealTargets)
       => LET trimmed == Strip(hist.arg)
              n == LineCount(trimmed)
              Indexed(i) == LineFromEnd(n + 4 - i)
          IN /\ LineFromEnd(n + 6) = <<"\n", BLUE, BOLD, RULE>>
             /\ LineFromEnd(n + 4) = <<RULE, END>>
             /\ LineFromEnd(3) = <<BLUE, RULE>>
             /\ \A i \in 1..n :
                  /\ Len(Indexed(i)) >= 7
                  /\ SubSeq(Indexed(i), 1, 6)
                       = <<BLUE, "[",
                           IF i < 10 THEN " " ELSE DigitChar[(i \div 10) + 1],
                           DigitChar[(i % 10) + 1], "]", " ">>
                  /\ \A j \in DOMAIN IndexedText(Indexed(i)) :
                       IndexedText(Indexed(i))[j] # "\n"
             /\ Len(trimmed) = (n - 1)
                  + Len(Join([i \in 1..n |-> IndexedText(Indexed(i))]))
             /\ \A i \in 1..n :
                  LET from == i - 1
                        + Len(Join([k \in 1..(i - 1) |->
                                      IndexedText(Indexed(k))]))
                  IN IndexedText(Indexed(i))
                       = SubSeq(trimmed, from + 1,
                                from + Len(IndexedText(Indexed(i))))
  /\ (hist.op = "post_run_print" /\ sys_stdout \in RealTargets)
       => LinesExecutedLine
            = <<YELLOW, "Lines executed: ">>
                \o Dec(LineCount(Strip(hook.post.cell_content))) \o <<END>>

\* The pre-run report of a text with blank edges and an empty line inside
\* has been printed: three indexed lines, the second one empty.
C14_Witness ==
  /\ hist.op = "pre_run_print"
  /\ hist.arg = <<"\n", "a", "\n", "\n", "b", " ">>
  /\ LineFromEnd(5) = <<BLUE, "[", " ", "2", "]", " ", END>>
  /\ LineFromEnd(4) = <<BLUE, "[", " ", "3", "]", " ", "b", END>>

\* The colour codes and fixed texts found only in lines of the two reports.
ReportTokens ==
  {BLUE, YELLOW, RULE, "PRE-RUN: Cell Content", "Execution starting...",
   "POST-RUN: Execution Complete", "Cell execution completed successfully!"}
IsReportText(t) == \E j \in DOMAIN t : t[j] \in ReportTokens

\* C15: no line of a pre-run or post-run report passes through the tee's
\* write: none is in the sink, and none was forwarded to a real stream
\* with the realtime prefix.
C15_NoReportThroughTee ==
  /\ \A i \in DOMAIN captured_output : ~IsReportText(captured_output[i])
  /\ \A tgt \in RealTargets :
       \A i \in DOMAIN stream[tgt].data :
         LET t == stream[tgt].data[i]
         IN (Len(t) > 1 /\ t[2] = "[REALTIME] ") => ~IsReportText(t)

\* C16: when the host has fired the after-execution event of a cell, the
\* tee is inactive and the two process-wide targets are real streams, the
\* ones displaced when the cell's session opened; and whenever the
\* controller is Inactive between cells, no redirection is installed.
C16_SessionEndedAfterCell ==
  /\ hist.op = "host_finish_cell"
       => /\ ~is_capturing
          /\ sys_stdout # Self /\ sys_stderr # Self
          /\ hook.pre_ran
               => sys_stdout = hist.pre_stdout /\ sys_stderr = hist.pre_stderr
  /\ (host = "idle" /\ ~active)
       => ~is_capturing /\ sys_stdout # Self /\ sys_stderr # Self

\* C17: a write that goes through its locked body after stop_capture has
\* ended the session in which the writer picked up the capture object
\* neither appends to the sink nor forwards to the snapshotted target, so
\* whatever write forwards is in the text that stop_capture returned.
C17_NoWriteAfterStop ==
  [][ (~is_capturing /\ hist'.op \in {"write_append", "write_forward"})
        => (captured_output' = captured_output /\ stream' = stream) ]_vars

\* C18: while a session is active, a chunk that write forwards reaches the
\* original target of the name it was written through: the snapshotted
\* sys.stderr for a chunk written to sys.stderr, the snapshotted sys.stdout
\* for a chunk written to sys.stdout.
C18_ForwardToDisplacedTarget ==
  [][ \A t \in Threads :
        (is_capturing /\ pc[t] = "appended" /\ pc'[t] = "idle")
          => LET tgt == IF hist.via[t] = "stderr"
                        THEN original_stderr ELSE original_stdout
             IN stream'[tgt].data
                  = Append(stream[tgt].data, Realtime(text[t])) ]_vars

\* C19: however often the extension is loaded and unloaded, the host's
\* transform step carries at most one wrapper, and none once unload has
\* run; a call of a wrapped step stores the raw cell text as the current
\* cell content.
C19_AtMostOneWrapper ==
  /\ wraps <= 1
  /\ hist.op = "unload_ipython_extension" => wraps = 0
  /\ (hist.op = "host_run_cell" /\ wraps > 0)
       => "_current_cell_content" \in DOMAIN ip_attrs

====
